---- MODULE Spec2Model ----
(***************************************************************************)
(* State-machine model of the climate-rights front-ends:                   *)
(*   - the projection map      (src/_MAP/projection-map/src/main.js)       *)
(*   - the recorder            (src/_MAP/projection-map/src/record.js)     *)
(*   - the knowledge graph     (src/_MAP/knowledge-graph/src/main.js)      *)
(*   - the forensic dashboard  (src/_FT/forensic-tool/src/main.js)         *)
(* JavaScript runs one handler at a time, so every event handler, promise  *)
(* continuation and timer callback is one atomic action.  Pending promises *)
(* and queued events are explicit state.                                   *)
(***************************************************************************)
EXTENDS Integers, Sequences, FiniteSets, TLC

(***************************************************************************)
(* Bounds of the model.                                                    *)
(***************************************************************************)
MaxLoaded == 2         \* raster datasets cached or in flight at once
MaxCsvFetches == 1     \* d3.csv(caseDataUrl) requests in flight at once
MaxDisasterFetches == 2  \* d3.csv(disasterDataUrl) requests in flight at once
MaxPrompts == 2        \* chat prompts sent to the webhook
MaxClicks == 2         \* clicks on the recorder's start button
RotationSteps == 3     \* positions of the rotating globe that are told apart
MaxWindFetches == 2    \* d3.json(windDataUrl) requests in flight at once

(***************************************************************************)
(* Values.                                                                 *)
(***************************************************************************)
Layers == {"emission", "temperature", "burn", "seaLevel"}
NullId == "null"                       \* activeRasterLayerId = null
NoData == << >>                        \* null layer.data / absent cache entry
Years == {2019, 2023, 2025}                 \* years the slider can select
Countries == {"Kenya", "Peru"}         \* properties.name of the world features

\* The parsed content of the static file of a layer and year.
DataOf(l, y) == <<l, y>>

\* JavaScript truthiness of a cache entry: undefined is falsy, a parsed
\* dataset object is truthy.
Truthy(d) == d # NoData

(***************************************************************************)
(* Strings are sequences of one-character strings, so that toLowerCase,    *)
(* includes and the relational operators are computed as the engine does.  *)
(***************************************************************************)
LowerChar(c) ==
    CASE c = "F" -> "f" [] c = "I" -> "i" [] c = "R" -> "r" [] c = "E" -> "e"
      [] c = "M" -> "m" [] c = "S" -> "s" [] c = "O" -> "o" [] c = "N" -> "n"
      [] c = "A" -> "a" [] OTHER -> c

toLowerCase(s) == [i \in 1..Len(s) |-> LowerChar(s[i])]

includes(s, sub) ==
    \E i \in 0..(Len(s) - Len(sub)) : SubSeq(s, i + 1, i + Len(sub)) = sub

\* Decimal digits of a non-negative integer: the string form of a year.
RECURSIVE Digits(_)
Digits(n) == IF n < 10 THEN <<n>> ELSE Append(Digits(n \div 10), n % 10)

\* a <= b on two strings (the Abstract Relational Comparison of two strings:
\* code-unit lexicographic order, a proper prefix being smaller).
RECURSIVE StrLeq(_, _)
StrLeq(a, b) ==
    IF a = << >> THEN TRUE
    ELSE IF b = << >> THEN FALSE
    ELSE IF Head(a) # Head(b) THEN Head(a) < Head(b)
    ELSE StrLeq(Tail(a), Tail(b))

Fire == <<"F", "i", "r", "e">>
Emission == <<"E", "m", "i", "s", "s", "i", "o", "n">>
Sea == <<"S", "e", "a">>

\* The category checkboxes and the keywords of their value.split('|').
Checkboxes == {"filter-cat1", "filter-cat2", "filter-cat3"}
CheckboxKeywords(cb) ==
    CASE cb = "filter-cat1" -> <<Fire>>
      [] cb = "filter-cat2" -> <<Emission>>
      [] OTHER -> <<Sea, Fire>>

Statuses == {"Decided", "Pending"}

\* Rows of the case CSV (d3.csv leaves every field a string).
KenyaFire ==
    [Jurisdictions |-> "Kenya", FilingYear |-> 2019, Status |-> "Decided",
     Issue |-> <<"f", "o", "r", "e", "s", "t", " ", "F", "I", "R", "E">>]
KenyaEmission ==
    [Jurisdictions |-> "Kenya", FilingYear |-> 2025, Status |-> "Pending",
     Issue |-> <<"e", "m", "i", "s", "s", "i", "o", "n", "s">>]
PeruNoIssue ==
    [Jurisdictions |-> "Peru", FilingYear |-> 2019, Status |-> "Pending",
     Issue |-> << >>]
PeruSea ==
    [Jurisdictions |-> "Peru", FilingYear |-> 2025, Status |-> "Decided",
     Issue |-> <<"S", "E", "A", " ", "f", "i", "r", "e">>]
AtlantisFire ==
    [Jurisdictions |-> "Atlantis", FilingYear |-> 2019, Status |-> "Decided",
     Issue |-> <<"F", "i", "r", "e">>]

\* Contents of CASES_COMBINED_status.csv the model is run on.
CaseFiles ==
    { <<KenyaFire, KenyaEmission, PeruNoIssue, PeruSea, AtlantisFire>>,
      <<KenyaFire, KenyaEmission>>,
      <<PeruSea, PeruSea, KenyaFire>> }

VARIABLES
    \* ---- projection map (main.js) ----
    isVisible,              \* rasterLayers[l].isVisible
    layerData,              \* rasterLayers[l].data
    dataCache,              \* rasterLayers[l].dataCache[year]
    activeRasterLayerId,
    textFetches,            \* d3.text promises in flight, per <<layer, year>>
    yearSliderValue,        \* yearSlider.property('value')
    sliderDirty,            \* the user has moved the slider (its dirty value flag)
    activeStatusFilters,
    activeCategoryFilters,
    categoryChecked,        \* checked property of the category checkboxes
    allCasesData,
    areCasesLoaded,
    isCasesLayerVisible,
    csvFetches,             \* d3.csv(caseDataUrl) promises in flight
    worldLoad,              \* "pending" | "loaded" | "failed" (d3.json(worldJsonUrl))
    caseCount,              \* countries[i].properties.caseCount, -1 = not set
    userHasInteracted,
    rotationTimer,          \* "null" | "running" | "stopped"
    rotation,               \* projection.rotate()[0], in timer ticks
    isDisasterLayerVisible,
    areDisastersLoaded,
    disasterLayerShown,     \* disasterLayer visibility = 'visible'
    disasterBtnActive,      \* '#toggle-disasters-btn' has class 'active'
    disasterFetches,        \* d3.csv(disasterDataUrl) promises in flight
    isWindLayerVisible,
    windDataCache,          \* the wind JSON, NoWind while it is null
    windFetches,            \* d3.json(windDataUrl) promises in flight, by content
    windAnimator,           \* the WindAnimator: isVisible, animationId, field,
                            \* particles
    rafPending,             \* ids of the requestAnimationFrame callbacks pending
    lastEvent               \* the handler that ran last, with what it called

mapVars ==
    <<isVisible, layerData, dataCache, activeRasterLayerId, textFetches,
      yearSliderValue, sliderDirty, activeStatusFilters, activeCategoryFilters,
      categoryChecked, allCasesData, areCasesLoaded,
      isCasesLayerVisible, csvFetches, worldLoad, caseCount, userHasInteracted,
      rotationTimer, rotation, isDisasterLayerVisible, areDisastersLoaded,
      disasterLayerShown, disasterBtnActive, disasterFetches,
      isWindLayerVisible, windDataCache, windFetches, windAnimator, rafPending,
      lastEvent>>

VARIABLES
    \* ---- chat widget (main.js) ----
    chatMessages,           \* the children of #chat-messages, in order
    promptInputValue,       \* promptInput.value
    sendButtonDisabled,     \* sendButton.disabled
    chatRequests,           \* the fetch calls made, in order, and their state
    activeCountryName,
    chatEvent               \* the chat handler that ran last; tick changes
                            \* with every chat handler that runs

\* activeCountryName is also set by the map (hideInfoBox)
chatOnlyVars ==
    <<chatMessages, promptInputValue, sendButtonDisabled, chatRequests,
      chatEvent>>

chatVars == <<chatOnlyVars, activeCountryName>>

VARIABLES
    \* ---- recorder (record.js) ----
    recLoad,                \* initialize(): "pending" | "loaded" | "failed"
    statusMessage,          \* statusMessage.textContent, and whether it is red
    startBtnDisabled,
    downloadLinkHidden,     \* downloadLink has class 'hidden'
    inputsDisabled,         \* countriesInput.disabled and waitTimeInput.disabled
    countriesInputValue,
    recorders,              \* the MediaRecorders made; mediaRecorder is the last
    sequences,              \* the runs of runAnimationSequence
    currentAnimationTimer   \* whose animation it runs, and whether it runs

recVars ==
    <<recLoad, statusMessage, startBtnDisabled, downloadLinkHidden,
      inputsDisabled, countriesInputValue, recorders, sequences,
      currentAnimationTimer>>

VARIABLES
    \* ---- knowledge graph (knowledge-graph/src/main.js) ----
    kgLoad,                 \* d3.json("/graph_data.json"): "pending" | ...
    allNodes,
    allLinks,
    kgYearSliderValue,      \* value of #year-slider
    circles,                \* the circle elements of nodeGroup, by key
    labels,                 \* the text elements of labelGroup, by key
    lines,                  \* the line elements of linkGroup, by key
    fadedCircles,           \* circles of class 'faded'
    fadedLines,
    hiddenLabels,           \* texts with display: none
    labelToggleChecked

kgVars ==
    <<kgLoad, allNodes, allLinks, kgYearSliderValue, circles, labels, lines,
      fadedCircles, fadedLines, hiddenLabels, labelToggleChecked>>

VARIABLES
    \* ---- forensic dashboard (forensic-tool/src/main.js) ----
    ftLoad,                 \* loadData(): "pending" | "loaded" | "failed"
    disasterData,
    caseData,
    allCountries,
    selectedCountry,
    disasterType,           \* value of #disaster-type
    dateSlider,             \* dateSlider.get(), << >> while dateSlider is null
    sliderRange,            \* the range the slider was created with
    disasterCountDisplay,   \* text of #disaster-count-display
    casesCountDisplay,
    disasterTimeline,       \* the children of #disaster-timeline, in order
    casesTimeline

ftVars ==
    <<ftLoad, disasterData, caseData, allCountries, selectedCountry,
      disasterType, dateSlider, sliderRange, disasterCountDisplay,
      casesCountDisplay, disasterTimeline, casesTimeline>>

vars == <<mapVars, chatVars, recVars, kgVars, ftVars>>

(***************************************************************************)
(* PROJECTION MAP.  The handlers call each other (a toggle calls the other *)
(* toggles, stopAttractorLoop, updateMap, a loader), so each function of   *)
(* main.js is an operator from the program state, as a record, to the      *)
(* program state after the call; an action applies such an operator to the *)
(* current state.                                                          *)
(***************************************************************************)
NoEvent == [op |-> "none", um |-> 0, req |-> << >>, moved |-> FALSE]

Cur ==
    [isVisible |-> isVisible, layerData |-> layerData, dataCache |-> dataCache,
     activeRasterLayerId |-> activeRasterLayerId, textFetches |-> textFetches,
     yearSliderValue |-> yearSliderValue, sliderDirty |-> sliderDirty,
     activeStatusFilters |-> activeStatusFilters,
     activeCategoryFilters |-> activeCategoryFilters,
     categoryChecked |-> categoryChecked,
     allCasesData |-> allCasesData, areCasesLoaded |-> areCasesLoaded,
     isCasesLayerVisible |-> isCasesLayerVisible, csvFetches |-> csvFetches,
     worldLoad |-> worldLoad, caseCount |-> caseCount,
     userHasInteracted |-> userHasInteracted, rotationTimer |-> rotationTimer,
     rotation |-> rotation, isDisasterLayerVisible |-> isDisasterLayerVisible,
     areDisastersLoaded |-> areDisastersLoaded,
     disasterLayerShown |-> disasterLayerShown,
     disasterBtnActive |-> disasterBtnActive,
     disasterFetches |-> disasterFetches,
     activeCountryName |-> activeCountryName,
     isWindLayerVisible |-> isWindLayerVisible,
     windDataCache |-> windDataCache, windFetches |-> windFetches,
     windAnimator |-> windAnimator, rafPending |-> rafPending,
     \* what the running handler has called so far: the slider year the last
     \* updateMap filtered by (um), and the <<layer, year>> it requested from
     \* a loader or was delivered (req)
     um |-> 0, req |-> << >>,
     \* whether the slider was moved since the active raster layer was
     \* switched on, which the page does not store
     moved |-> lastEvent.moved]

\* The state after a handler: s is the record the handler returned.
Becomes(s, op) ==
    /\ isVisible' = s.isVisible
    /\ layerData' = s.layerData
    /\ dataCache' = s.dataCache
    /\ activeRasterLayerId' = s.activeRasterLayerId
    /\ textFetches' = s.textFetches
    /\ yearSliderValue' = s.yearSliderValue
    /\ sliderDirty' = s.sliderDirty
    /\ activeStatusFilters' = s.activeStatusFilters
    /\ activeCategoryFilters' = s.activeCategoryFilters
    /\ categoryChecked' = s.categoryChecked
    /\ allCasesData' = s.allCasesData
    /\ areCasesLoaded' = s.areCasesLoaded
    /\ isCasesLayerVisible' = s.isCasesLayerVisible
    /\ csvFetches' = s.csvFetches
    /\ worldLoad' = s.worldLoad
    /\ caseCount' = s.caseCount
    /\ userHasInteracted' = s.userHasInteracted
    /\ rotationTimer' = s.rotationTimer
    /\ rotation' = s.rotation
    /\ isDisasterLayerVisible' = s.isDisasterLayerVisible
    /\ areDisastersLoaded' = s.areDisastersLoaded
    /\ disasterLayerShown' = s.disasterLayerShown
    /\ disasterBtnActive' = s.disasterBtnActive
    /\ disasterFetches' = s.disasterFetches
    /\ isWindLayerVisible' = s.isWindLayerVisible
    /\ windDataCache' = s.windDataCache
    /\ windFetches' = s.windFetches
    /\ windAnimator' = s.windAnimator
    /\ rafPending' = s.rafPending
    /\ lastEvent' = [op |-> op, um |-> s.um, req |-> s.req, moved |-> s.moved]
    /\ activeCountryName' = s.activeCountryName
    /\ UNCHANGED <<chatOnlyVars, recVars, kgVars, ftVars>>

\* ---- info box ----

hideInfoBox(s) == [s EXCEPT !.activeCountryName = NullId]

\* ---- attractor loop ----

\* A startAttractorLoop that forgets the userHasInteracted guard.
startAttractorLoopUnguarded(s) == [s EXCEPT !.rotationTimer = "running"]

startAttractorLoop(s) ==
    IF s.userHasInteracted THEN s
    ELSE [s EXCEPT !.rotationTimer = "running"]

stopAttractorLoop(s) ==
    IF s.userHasInteracted THEN s
    ELSE [s EXCEPT !.userHasInteracted = TRUE,
                   !.rotationTimer = IF @ = "running" THEN "stopped" ELSE @]

\* ---- cases: updateMap ----

\* Array.filter: the subsequence of the elements satisfying Test.
filter(seq, Test(_)) == SelectSeq(seq, Test)

\* d3.rollup(rows, v => v.length, d => d.Jurisdictions).get(name) || 0
RECURSIVE rollupCount(_, _)
rollupCount(rows, name) ==
    IF rows = << >> THEN 0
    ELSE (IF Head(rows).Jurisdictions = name THEN 1 ELSE 0)
         + rollupCount(Tail(rows), name)

\* A category test that forgets to lower-case the issue text.
categoryTestCaseSensitive(d, filters) ==
    IF d.Issue = << >> THEN FALSE
    ELSE \E keyword \in filters : includes(d.Issue, toLowerCase(keyword))

\* The category test of updateMap (main.js 882-886).
categoryTest(d, filters) ==
    LET issueText == toLowerCase(d.Issue)
    IN  IF issueText = << >> THEN FALSE
        ELSE \E keyword \in filters : includes(issueText, toLowerCase(keyword))

filteredCases(s) ==
    LET selectedYear == Digits(s.yearSliderValue)
        YearTest(d) == StrLeq(Digits(d.FilingYear), selectedYear)
        StatusTest(d) == d.Status \in s.activeStatusFilters
        CategoryTest(d) == categoryTest(d, s.activeCategoryFilters)
        f1 == filter(s.allCasesData, YearTest)
        f2 == IF Cardinality(s.activeStatusFilters) > 0
              THEN filter(f1, StatusTest) ELSE f1
        f3 == IF Cardinality(s.activeCategoryFilters) > 0
              THEN filter(f2, CategoryTest) ELSE f2
    IN  f3

\* countries is [] until the world geography has loaded.
countries(s) == IF s.worldLoad = "loaded" THEN Countries ELSE {}

updateMap(s) ==
    IF ~s.areCasesLoaded THEN s
    ELSE LET rows == filteredCases(s)
         IN  [s EXCEPT !.caseCount =
                          [c \in Countries |->
                             IF c \in countries(s) THEN rollupCount(rows, c)
                             ELSE @[c]],
                       !.um = s.yearSliderValue]

\* yearSlider.attr('value', v): the content attribute sets the value only
\* while the user has not moved the slider.
setSliderValueAttr(s, v) ==
    IF s.sliderDirty THEN s ELSE [s EXCEPT !.yearSliderValue = v]

\* ---- raster layers ----

\* yearRange.default of the four toggles.
DefaultYear(l) ==
    CASE l = "emission" -> 2019
      [] l = "temperature" -> 2025
      [] l = "burn" -> 2025
      [] OTHER -> 2023

\* The order in which a toggle deactivates the other layers.
Others(l) ==
    CASE l = "emission" -> <<"burn", "temperature", "seaLevel">>
      [] l = "temperature" -> <<"burn", "emission", "seaLevel">>
      [] l = "burn" -> <<"temperature", "emission", "seaLevel">>
      [] OTHER -> <<"temperature", "emission", "burn">>

InFlight(fetches) ==
    LET RECURSIVE Sum(_)
        Sum(K) == IF K = {} THEN 0
                  ELSE LET k == CHOOSE x \in K : TRUE
                       IN  fetches[k] + Sum(K \ {k})
    IN  Sum(DOMAIN fetches)

\* Number of cache entries that hold a dataset.
Cached(cache) ==
    Cardinality({k \in Layers \X Years : Truthy(cache[k[1]][k[2]])})

\* A loader that looks the year up in the cache but fetches all the same.
loadAndRenderAlwaysFetch(s, l, year) ==
    [s EXCEPT !.textFetches[<<l, year>>] = @ + 1, !.req = <<l, year>>]

\* loadAndRenderEmissionData / TemperatureData / BurnData / SeaLevelData:
\* the four functions differ in the layer and the URL only.
loadAndRender(s, l, year) ==
    LET cachedData == s.dataCache[l][year]
    IN  IF Truthy(cachedData)
        THEN [s EXCEPT !.layerData[l] = cachedData, !.req = <<l, year>>]
        ELSE [s EXCEPT !.textFetches[<<l, year>>] = @ + 1,
                       !.req = <<l, year>>]

\* The category filter a toggle sets when its layer becomes visible.
filtersOn(s, l) ==
    CASE l = "emission" ->
           [s EXCEPT !.categoryChecked["filter-cat2"] = TRUE,
                     !.activeCategoryFilters = @ \cup {Emission}]
      [] l = "burn" ->
           [s EXCEPT !.categoryChecked["filter-cat1"] = TRUE,
                     !.activeCategoryFilters = @ \cup {Fire}]
      [] OTHER -> s

\* ... and when it is hidden again (toggleTempLayer clears the emission one).
filtersOff(s, l) ==
    CASE l \in {"emission", "temperature"} ->
           [s EXCEPT !.categoryChecked["filter-cat2"] = FALSE,
                     !.activeCategoryFilters = @ \ {Emission}]
      [] l = "burn" ->
           [s EXCEPT !.categoryChecked["filter-cat1"] = FALSE,
                     !.activeCategoryFilters = @ \ {Fire}]
      [] OTHER -> s

\* A toggle that leaves the other layers as they are.
deactivateNone(s, others) == s

RECURSIVE toggleLayer(_, _)
RECURSIVE deactivateOthers(_, _)
\* if (rasterLayers.X.isVisible) toggleXLayer(); for each other layer in turn
deactivateOthers(s, others) ==
    IF others = << >> THEN s
    ELSE deactivateOthers(IF s.isVisible[Head(others)]
                          THEN toggleLayer(s, Head(others)) ELSE s,
                          Tail(others))

\* toggleEmissionLayer / toggleTempLayer / toggleBurnLayer / toggleSeaLevelLayer
toggleLayer(s, l) ==
    LET s1 == stopAttractorLoop(s)
        s2 == IF ~s1.isVisible[l] THEN deactivateOthers(s1, Others(l)) ELSE s1
        s3 == [s2 EXCEPT !.isVisible[l] = ~@, !.moved = FALSE]
    IN  IF s3.isVisible[l]
        THEN LET s4 == filtersOn([s3 EXCEPT !.activeRasterLayerId = l], l)
                 s5 == IF s4.isCasesLayerVisible THEN updateMap(s4) ELSE s4
                 s6 == setSliderValueAttr(s5, DefaultYear(l))
             IN  loadAndRender(s6, l, DefaultYear(l))
        ELSE LET s4 == filtersOff([s3 EXCEPT !.activeRasterLayerId = NullId], l)
             IN  IF s4.isCasesLayerVisible THEN updateMap(s4) ELSE s4

toggleEmissionLayer(s) == toggleLayer(s, "emission")
toggleTempLayer(s) == toggleLayer(s, "temperature")
toggleBurnLayer(s) == toggleLayer(s, "burn")
toggleSeaLevelLayer(s) == toggleLayer(s, "seaLevel")

\* d3.text(dataUrl).then(...): the file arrived and parsed.
loadResolved(s, l, year) ==
    [s EXCEPT !.textFetches[<<l, year>>] = @ - 1,
              !.dataCache[l][year] = DataOf(l, year),
              !.layerData[l] = DataOf(l, year), !.req = <<l, year>>]

\* .catch(...): the request failed or the text did not parse.
loadRejected(s, l, year) ==
    [s EXCEPT !.textFetches[<<l, year>>] = @ - 1, !.req = <<l, year>>]

\* ---- cases layer ----

\* d3.max(allCasesData.map(d => +d['Filing Year']))
maxYear(rows) ==
    CHOOSE y \in {rows[i].FilingYear : i \in DOMAIN rows} :
        \A i \in DOMAIN rows : rows[i].FilingYear <= y

toggleCasesLayer(s) ==
    LET s1 == stopAttractorLoop(s)
        s2 == [s1 EXCEPT !.isCasesLayerVisible = ~@]
    IN  IF s2.isCasesLayerVisible
        THEN IF s2.areCasesLoaded THEN updateMap(s2)
             ELSE [s2 EXCEPT !.csvFetches = @ + 1]
        ELSE [s2 EXCEPT !.caseCount =
                           [c \in Countries |->
                              IF c \in countries(s2) THEN 0 ELSE @[c]]]

\* d3.csv(caseDataUrl).then(...)
casesResolved(s, data) ==
    LET s1 == [s EXCEPT !.csvFetches = @ - 1, !.allCasesData = data,
                        !.areCasesLoaded = TRUE]
        s2 == IF s1.activeRasterLayerId = NullId
              THEN setSliderValueAttr(s1, maxYear(s1.allCasesData)) ELSE s1
    IN  updateMap(s2)

casesRejected(s) ==
    [s EXCEPT !.csvFetches = @ - 1, !.isCasesLayerVisible = FALSE]

\* input[name="status"] change: the checkbox now is checked iff it was not.
statusChange(s, status) ==
    updateMap([s EXCEPT !.activeStatusFilters =
                           IF status \in @ THEN @ \ {status}
                           ELSE @ \cup {status}])

\* input[name="category"] change
categoryChange(s, cb) ==
    LET isChecked == ~s.categoryChecked[cb]
        keywords == {CheckboxKeywords(cb)[i] : i \in DOMAIN CheckboxKeywords(cb)}
    IN  updateMap([s EXCEPT !.categoryChecked[cb] = isChecked,
                            !.activeCategoryFilters =
                               IF isChecked THEN @ \cup keywords
                               ELSE @ \ keywords])

\* yearSlider 'input'
yearSliderInput(s, year) ==
    LET s1 == [s EXCEPT !.yearSliderValue = year, !.sliderDirty = TRUE]
        s2 == IF s1.isCasesLayerVisible THEN updateMap(s1) ELSE s1
    IN  IF s2.activeRasterLayerId = NullId THEN s2
        ELSE loadAndRender([s2 EXCEPT !.moved = TRUE],
                           s2.activeRasterLayerId, year)

\* ---- disaster layer ----

toggleDisasterLayer(s) ==
    LET s1 == stopAttractorLoop(s)
        s2 == [s1 EXCEPT !.isDisasterLayerVisible = ~@]
        s3 == [s2 EXCEPT !.disasterBtnActive = s2.isDisasterLayerVisible]
    IN  IF s3.isDisasterLayerVisible
        THEN LET s4 == [s3 EXCEPT !.disasterLayerShown = TRUE]
             IN  IF s4.areDisastersLoaded THEN s4
                 ELSE [s4 EXCEPT !.disasterFetches = @ + 1]
        ELSE [s3 EXCEPT !.disasterLayerShown = FALSE]

\* d3.csv(disasterDataUrl).then(...)
disastersResolved(s) ==
    LET s1 == [s EXCEPT !.disasterFetches = @ - 1, !.areDisastersLoaded = TRUE]
    IN  IF ~s1.isCasesLayerVisible /\ s1.activeRasterLayerId = NullId
        THEN setSliderValueAttr(s1, 2025) ELSE s1

\* .catch(...): revert state on error
disastersRejected(s) ==
    [s EXCEPT !.disasterFetches = @ - 1, !.isDisasterLayerVisible = FALSE,
              !.disasterLayerShown = FALSE, !.disasterBtnActive = FALSE]

(***************************************************************************)
(* WIND LAYER (main.js 699-728) and WindAnimator (wind.js, kept in src as  *)
(* startUpAPP.bat 52-325).  The canvas is modelled as a line of cells: a   *)
(* particle has an x only, and its y, which the code treats as its x, is   *)
(* left out.  A number that may be null (p.xt) or an array that may be the *)
(* NULL_WIND_VECTOR is a sequence: << >> for null or NaN, <<n>> for n.     *)
(***************************************************************************)
MAX_PARTICLE_AGE == 90

\* Indices of this.particles.  evolve and draw treat every particle by
\* itself, so the model follows one.
Particles == {1}
Cells == 0..5                          \* values of Math.random() * this.width
CreatedAges == {0, 45, 89}             \* values of floor(random() * MAX_AGE)
NoWind == "null"                       \* windDataCache = null
WindFiles == {"valid", "invalid"}      \* contents of the wind JSON
NullField == [windData |-> NoWind]     \* this.field = null
NoId == 0                              \* this.animationId = null
NoPath == << >>                        \* p.xt = null
NULL_WIND_VECTOR == << >>

\* projection.invert([x, y]) gives coordinates: the cell is on the globe.
invert(x) == x \in 0..4

\* The wind of a cell, in cells per frame: it takes a particle from cell 0 to
\* 1 and from 1 to 0, back and forth between 2 and 3, and from 4 off the globe.
WindAt(x) == IF x \in {1, 3} THEN -1 ELSE 1

\* field(x, y) of createField
field(x) == IF ~invert(x) THEN NULL_WIND_VECTOR ELSE <<WindAt(x)>>

isNaN(u) == u = NULL_WIND_VECTOR

\* truthiness of a number or null: null and 0 are falsy
TruthyNumber(n) == n # NoPath /\ n[1] # 0

createField(windData) ==
    IF windData # "valid" THEN NullField ELSE [windData |-> windData]

\* randomizeParticle(particle): rnd is the x of the last Math.random() pair
\* drawn; `fresh` records that the particle was placed since the last frame
\* began
randomizeParticle(particle, rnd) ==
    [particle EXCEPT !.x = rnd, !.fresh = TRUE]

\* createParticles(): rnd gives every particle its random age and place
createParticles(a, rnd) ==
    [a EXCEPT !.particles =
        [i \in Particles |->
            randomizeParticle([age |-> rnd[i][1], x |-> 0, xt |-> NoPath,
                               drawn |-> FALSE, fresh |-> FALSE],
                              rnd[i][2])]]

\* the body of evolve's forEach
evolveParticle(p, rnd) ==
    LET p1 == [p EXCEPT !.xt = NoPath, !.drawn = FALSE, !.fresh = FALSE]
        p2 == IF p1.age > MAX_PARTICLE_AGE
              THEN [randomizeParticle(p1, rnd) EXCEPT !.age = 0]
              ELSE p1
        u == field(p2.x)
        p3 == IF isNaN(u)
              THEN [p2 EXCEPT !.age = MAX_PARTICLE_AGE]
              ELSE LET xt == p2.x + u[1]
                   IN  IF invert(xt)
                       THEN [p2 EXCEPT !.xt = <<xt>>]
                       ELSE [p2 EXCEPT !.age = MAX_PARTICLE_AGE]
    IN  [p3 EXCEPT !.age = @ + 1]

\* A draw that strokes every particle, with or without a path.
drawParticleUnchecked(p) ==
    [p EXCEPT !.drawn = TRUE, !.x = IF p.xt = NoPath THEN @ ELSE p.xt[1]]

\* the body of draw's forEach; `drawn` records the stroke
drawParticle(p) ==
    IF TruthyNumber(p.xt)
    THEN [p EXCEPT !.drawn = TRUE, !.x = p.xt[1]]
    ELSE p

\* requestAnimationFrame gives an id that no pending callback has
newFrameId(s) ==
    CHOOSE id \in 1..(Cardinality(s.rafPending) + 2) :
        id \notin s.rafPending /\ id # s.windAnimator.animationId

\* frame() of animate(): rnd gives the places of the particles evolve
\* randomizes
frame(s, rnd) ==
    IF ~s.windAnimator.isVisible THEN s
    ELSE LET id == newFrameId(s)
         IN  [s EXCEPT !.windAnimator.particles =
                          [i \in DOMAIN @ |->
                              drawParticle(evolveParticle(@[i], rnd[i]))],
                       !.windAnimator.animationId = id,
                       !.rafPending = @ \cup {id}]

\* A stop that forgets to cancel the pending frame.
stopWithoutCancel(s) ==
    [s EXCEPT !.windAnimator.isVisible = FALSE]

\* WindAnimator.stop()
stop(s) ==
    LET s1 == [s EXCEPT !.windAnimator.isVisible = FALSE]
    IN  IF s1.windAnimator.animationId # NoId
        THEN [s1 EXCEPT !.rafPending = @ \ {s1.windAnimator.animationId},
                        !.windAnimator.animationId = NoId]
        ELSE s1

\* WindAnimator.start(windData)
start(s, windData, rnd) ==
    LET s1 == stop(s)
        s2 == [s1 EXCEPT !.windAnimator.isVisible = TRUE,
                         !.windAnimator.field = createField(windData)]
    IN  IF s2.windAnimator.field = NullField THEN stop(s2)
        ELSE frame([s2 EXCEPT !.windAnimator =
                                 createParticles(@, rnd)],
                   [i \in Particles |-> rnd[i][2]])

\* WindAnimator.updateProjection(newProjection)
updateProjection(s, rnd) ==
    IF s.windAnimator.isVisible /\ s.windAnimator.field # NullField
    THEN [s EXCEPT !.windAnimator =
             createParticles(
                 [@ EXCEPT !.field = createField(@.windData)], rnd)]
    ELSE s

\* What Math.random() gives a createParticles and an evolve.
CreationDraws == [Particles -> CreatedAges \X Cells]
EvolveDraws == [Particles -> Cells]

\* d3.json(windDataUrl).then(...)
windLoadResolved(s, data, rnd) ==
    start([s EXCEPT !.windFetches = @ - 1, !.windDataCache = data],
          data, rnd)

\* d3.json(windDataUrl).catch(...)
windLoadRejected(s) == [s EXCEPT !.windFetches = @ - 1]

toggleWindLayer(s, rnd) ==
    LET s1 == stopAttractorLoop(s)
        s2 == [s1 EXCEPT !.isWindLayerVisible = ~@]
    IN  IF s2.isWindLayerVisible
        THEN IF s2.windDataCache # NoWind
             THEN start(s2, s2.windDataCache, rnd)
             ELSE [s2 EXCEPT !.windFetches = @ + 1]
        ELSE stop(s2)

\* drag 'start' and zoom 'start'
gestureStart(s) ==
    LET s1 == hideInfoBox(stopAttractorLoop(s))
    IN  IF s1.isWindLayerVisible THEN stop(s1) ELSE s1

\* drag 'end' and zoom 'end'
gestureEnd(s, rnd1, rnd2) ==
    IF s.isWindLayerVisible /\ s.windDataCache # NoWind
    THEN start(updateProjection(s, rnd1), s.windDataCache, rnd2)
    ELSE s

(***************************************************************************)
(* Actions of the projection map: one per event the browser delivers.      *)
(***************************************************************************)
MapInit ==
    /\ isVisible = [l \in Layers |-> FALSE]
    /\ layerData = [l \in Layers |-> NoData]
    /\ dataCache = [l \in Layers |-> [y \in Years |-> NoData]]
    /\ activeRasterLayerId = NullId
    /\ textFetches = [k \in Layers \X Years |-> 0]
    /\ yearSliderValue \in Years
    /\ sliderDirty = FALSE
    /\ activeStatusFilters = {}
    /\ activeCategoryFilters = {}
    /\ categoryChecked = [cb \in Checkboxes |-> FALSE]
    /\ allCasesData = << >>
    /\ areCasesLoaded = FALSE
    /\ isCasesLayerVisible = FALSE
    /\ csvFetches = 0
    /\ worldLoad = "pending"
    /\ caseCount = [c \in Countries |-> -1]
    /\ userHasInteracted = FALSE
    /\ rotationTimer = "null"
    /\ rotation = 0
    /\ isDisasterLayerVisible = FALSE
    /\ areDisastersLoaded = FALSE
    /\ disasterLayerShown = FALSE
    /\ disasterBtnActive = FALSE
    /\ disasterFetches = 0
    /\ isWindLayerVisible = FALSE
    /\ windDataCache = NoWind
    /\ windFetches = 0
    /\ windAnimator = [isVisible |-> FALSE, animationId |-> NoId,
                       field |-> NullField,
                       particles |-> << >>]
    /\ rafPending = {}
    /\ lastEvent = NoEvent

(***************************************************************************)
(* CHAT WIDGET (main.js 134-230).  A message is a record of its class and  *)
(* its content; `request` is the number of the fetch it belongs to, which   *)
(* the page does not store.                                                 *)
(***************************************************************************)
WhiteSpace == {" "}
Prompts == { << >>, <<" ">>, <<"h", "i">>, <<" ", "o", "k", " ">> }
Outcomes == {"reply", "format", "status", "network"}

RECURSIVE trimStart(_)
trimStart(str) ==
    IF str # << >> /\ Head(str) \in WhiteSpace
    THEN trimStart(Tail(str)) ELSE str

RECURSIVE trimEnd(_)
trimEnd(str) ==
    IF str # << >> /\ str[Len(str)] \in WhiteSpace
    THEN trimEnd(SubSeq(str, 1, Len(str) - 1)) ELSE str

\* String.prototype.trim
trim(str) == trimEnd(trimStart(str))

\* What the handler of a settled fetch passes to addMessage.
\*   "reply":   response.ok, the body is an array whose first element has .data
\*   "format":  response.ok, the body is JSON of any other shape
\*   "status":  !response.ok, the handler throws `Error: <status> - <text>`
\*   "network": fetch, response.text() or response.json() rejects, or reading
\*              data[0].data throws
aiContent(outcome) ==
    CASE outcome = "reply" -> <<"data[0].data">>
      [] outcome = "format" -> <<"Received an unexpected response format.">>
      [] outcome = "status" -> <<"An error occurred: ", "Error: status - text">>
      [] OTHER -> <<"An error occurred: ", "message">>

addMessage(content, className, request) ==
    chatMessages' = Append(chatMessages,
                           [className |-> className, content |-> content,
                            request |-> request])

\* A sendPrompt that does not trim the input before testing it.
sendPromptUntrimmed(text) ==
    /\ addMessage(text, "user-message", Len(chatRequests) + 1)
    /\ promptInputValue' = << >>
    /\ sendButtonDisabled' = TRUE
    /\ chatRequests' = Append(chatRequests,
                              [prompt |-> text, country |-> activeCountryName,
                               state |-> "pending"])
    /\ activeCountryName' = IF activeCountryName = NullId
                            THEN "United States of America"
                            ELSE activeCountryName
    /\ chatEvent' = [op |-> "submit", text |-> text, tick |-> ~chatEvent.tick]

\* sendPrompt up to its first await: the user has typed `text` and submits.
sendPrompt(text) ==
    LET promptText == trim(text)
    IN  /\ chatEvent' = [op |-> "submit", text |-> text, tick |-> ~chatEvent.tick]
        /\ IF promptText = << >>
           THEN /\ promptInputValue' = text
                /\ UNCHANGED <<chatMessages, sendButtonDisabled, chatRequests,
                               activeCountryName>>
           ELSE /\ addMessage(promptText, "user-message", Len(chatRequests) + 1)
                /\ promptInputValue' = << >>
                /\ sendButtonDisabled' = TRUE
                /\ chatRequests' =
                      Append(chatRequests,
                             [prompt |-> promptText,
                              country |-> activeCountryName,
                              state |-> "pending"])
                /\ activeCountryName' = IF activeCountryName = NullId
                                        THEN "United States of America"
                                        ELSE activeCountryName

\* sendPrompt after the await: try / catch / finally
sendPromptSettled(k, outcome) ==
    /\ addMessage(aiContent(outcome), "ai-message", k)
    /\ sendButtonDisabled' = FALSE
    /\ chatRequests' = [chatRequests EXCEPT ![k].state = "settled"]
    /\ chatEvent' = [op |-> "settled", text |-> << >>, tick |-> ~chatEvent.tick]
    /\ UNCHANGED <<promptInputValue, activeCountryName>>

ChatInit ==
    /\ chatMessages = << >>
    /\ promptInputValue = << >>
    /\ sendButtonDisabled = FALSE
    /\ chatRequests = << >>
    /\ activeCountryName = NullId
    /\ chatEvent = [op |-> "none", text |-> << >>, tick |-> FALSE]

\* 'submit' of the chat form
ChatSubmit ==
    /\ \E text \in Prompts :
          /\ trim(text) # << >> => Len(chatRequests) < MaxPrompts
          /\ sendPrompt(text)
    /\ UNCHANGED <<mapVars, recVars, kgVars, ftVars>>

\* the webhook answers, or the request fails
ChatSettle ==
    /\ \E k \in DOMAIN chatRequests, outcome \in Outcomes :
          /\ chatRequests[k].state = "pending"
          /\ sendPromptSettled(k, outcome)
    /\ UNCHANGED <<mapVars, recVars, kgVars, ftVars>>

(***************************************************************************)
(* RECORDER (record.js).  A click on the start button makes a new          *)
(* MediaRecorder and starts one run of runAnimationSequence; the run is     *)
(* suspended at each await and resumed by the animation timer or by the     *)
(* timeout it waits for.  A MediaRecorder delivers its events (start, stop) *)
(* as tasks, after the handler that called start() or stop() has returned.  *)
(***************************************************************************)
WorldFeatures == { <<"Kenya">>, <<"Peru">> }   \* world.features[i].properties.name

\* countriesInput.value, as its lines (value.split('\n')); '' is one empty line
InputValues ==
    { << << >> >>,
      << <<" ">>, << >> >>,
      << <<"Kenya">> >>,
      << <<" ", "Atlantis">>, << >>, <<"Peru", " ">> >> }

RECURSIVE mapTrim(_)
mapTrim(names) ==
    IF names = << >> THEN << >>
    ELSE <<trim(Head(names))>> \o mapTrim(Tail(names))

nonEmpty(str) == str # << >>

\* countriesInput.value.split('\n').map(c => c.trim()).filter(Boolean)
parseCountryNames(value) == SelectSeq(mapTrim(value), nonEmpty)

NoTimer == [owner |-> 0, running |-> FALSE]

RecCur ==
    [recLoad |-> recLoad, statusMessage |-> statusMessage,
     startBtnDisabled |-> startBtnDisabled,
     downloadLinkHidden |-> downloadLinkHidden,
     inputsDisabled |-> inputsDisabled,
     countriesInputValue |-> countriesInputValue,
     recorders |-> recorders, sequences |-> sequences,
     currentAnimationTimer |-> currentAnimationTimer]

RecBecomes(r) ==
    /\ recLoad' = r.recLoad
    /\ statusMessage' = r.statusMessage
    /\ startBtnDisabled' = r.startBtnDisabled
    /\ downloadLinkHidden' = r.downloadLinkHidden
    /\ inputsDisabled' = r.inputsDisabled
    /\ countriesInputValue' = r.countriesInputValue
    /\ recorders' = r.recorders
    /\ sequences' = r.sequences
    /\ currentAnimationTimer' = r.currentAnimationTimer
    /\ UNCHANGED <<mapVars, chatVars, kgVars, ftVars>>

setStatus(r, message, isError) ==
    [r EXCEPT !.statusMessage = [text |-> message, isError |-> isError]]

\* the run q notes the step it performs
logStep(r, q, step) == [r EXCEPT !.sequences[q].log = Append(@, step)]

\* resetGlobe(): the previous timer is stopped, a new one animates for q
resetGlobe(r, q) ==
    [logStep(r, q, <<"resetGlobe">>)
        EXCEPT !.currentAnimationTimer = [owner |-> q, running |-> TRUE]]

\* flyTo(countryName): a name that matches no feature resolves at once
flyTo(r, q, countryName) ==
    LET r1 == logStep(r, q, <<"flyTo">> \o countryName)
    IN  IF countryName \notin WorldFeatures THEN r1
        ELSE [r1 EXCEPT !.currentAnimationTimer =
                            [owner |-> q, running |-> TRUE]]

\* mediaRecorder.stop(), on the recorder made by the latest click
mediaRecorderStop(r) ==
    LET m == Len(r.recorders)
    IN  [r EXCEPT !.recorders[m].state = "inactive",
                  !.recorders[m].events = Append(@, "stop")]

\* A loop step that gives the sequence up when flyTo finds no country.
loopStepAbortOnUnknown(r, q, i) ==
    LET names == r.sequences[q].countryNames
    IN  IF i > Len(names)
        THEN LET r1 == setStatus(r, <<"Recording... Returning to globe view.">>,
                                 FALSE)
             IN  [resetGlobe(r1, q) EXCEPT !.sequences[q].pc = "reset2",
                                           !.sequences[q].i = i]
        ELSE LET countryName == names[i]
                 r1 == setStatus(r, <<"Recording... Flying to ">>
                                       \o countryName \o <<".">>, FALSE)
                 r2 == flyTo(r1, q, countryName)
             IN  IF countryName \in WorldFeatures
                 THEN [r2 EXCEPT !.sequences[q].pc = "fly",
                                 !.sequences[q].i = i]
                 ELSE [r2 EXCEPT !.sequences[q].pc = "done",
                                 !.sequences[q].i = i]

\* runAnimationSequence, from the head of the for loop with index i (from 1)
\* to the next await that suspends it
loopStep(r, q, i) ==
    LET names == r.sequences[q].countryNames
    IN  IF i > Len(names)
        THEN LET r1 == setStatus(r, <<"Recording... Returning to globe view.">>,
                                 FALSE)
             IN  [resetGlobe(r1, q) EXCEPT !.sequences[q].pc = "reset2",
                                           !.sequences[q].i = i]
        ELSE LET countryName == names[i]
                 r1 == setStatus(r, <<"Recording... Flying to ">>
                                       \o countryName \o <<".">>, FALSE)
                 r2 == flyTo(r1, q, countryName)
             IN  IF countryName \in WorldFeatures
                 THEN [r2 EXCEPT !.sequences[q].pc = "fly",
                                 !.sequences[q].i = i]
                 ELSE LET r3 == setStatus(r2, <<"Recording... Pausing at ">>
                                                 \o countryName \o <<".">>,
                                          FALSE)
                      IN  [logStep(r3, q, <<"pause">> \o countryName)
                              EXCEPT !.sequences[q].pc = "pause",
                                     !.sequences[q].i = i]

\* runAnimationSequence from the await that suspended the run q
resume(r, q) ==
    LET pc == r.sequences[q].pc
        i == r.sequences[q].i
    IN  CASE pc = "reset1" -> [r EXCEPT !.sequences[q].pc = "wait1"]
          [] pc = "wait1" -> loopStep(r, q, 1)
          [] pc = "fly" ->
                LET countryName == r.sequences[q].countryNames[i]
                    r1 == setStatus(r, <<"Recording... Pausing at ">>
                                          \o countryName \o <<".">>, FALSE)
                IN  [logStep(r1, q, <<"pause">> \o countryName)
                        EXCEPT !.sequences[q].pc = "pause"]
          [] pc = "pause" -> loopStep(r, q, i + 1)
          [] pc = "reset2" -> [r EXCEPT !.sequences[q].pc = "wait2"]
          [] pc = "wait2" ->
                IF Len(r.recorders) > 0
                   /\ r.recorders[Len(r.recorders)].state # "inactive"
                THEN [mediaRecorderStop(logStep(r, q, <<"stop">>))
                         EXCEPT !.sequences[q].pc = "done"]
                ELSE [r EXCEPT !.sequences[q].pc = "done"]
          [] OTHER -> r

\* runAnimationSequence up to its first await; q is the number of the run
runAnimationSequence(r, q) ==
    LET countryNames == parseCountryNames(r.countriesInputValue)
        r1 == [r EXCEPT !.sequences =
                           Append(@, [countryNames |-> countryNames,
                                      pc |-> "start", i |-> 0, log |-> << >>])]
    IN  IF Len(countryNames) = 0
        THEN LET r2 == setStatus(r1, <<"Please enter at least one country.">>,
                                 TRUE)
             IN  [mediaRecorderStop(r2) EXCEPT !.sequences[q].pc = "done"]
        ELSE LET r2 == setStatus(r1,
                           <<"Recording... Starting with globe view.">>, FALSE)
             IN  [resetGlobe(r2, q) EXCEPT !.sequences[q].pc = "reset1"]

onstart(r) ==
    [setStatus(r, <<"Recording...">>, FALSE)
        EXCEPT !.startBtnDisabled = TRUE, !.downloadLinkHidden = TRUE,
               !.inputsDisabled = TRUE]

onstop(r) ==
    LET r1 == setStatus(r, <<"Processing video...">>, FALSE)
        r2 == [r1 EXCEPT !.downloadLinkHidden = FALSE]
        r3 == setStatus(r2, <<"Recording complete. Ready to download.">>, FALSE)
    IN  [r3 EXCEPT !.startBtnDisabled = FALSE, !.inputsDisabled = FALSE]

\* mediaRecorder.onerror; message is event.error.message
onerror(r, message) ==
    [setStatus(r, <<"Recording error: ", message>>, TRUE)
        EXCEPT !.startBtnDisabled = FALSE, !.inputsDisabled = FALSE]

\* startBtn 'click': setupMediaRecorder(); mediaRecorder.start();
\* runAnimationSequence()
startBtnClick(r) ==
    LET r1 == [r EXCEPT !.recorders =
                           Append(@, [state |-> "recording",
                                      events |-> <<"start">>])]
    IN  runAnimationSequence(r1, Len(r.sequences) + 1)

RecInit ==
    /\ recLoad = "pending"
    /\ statusMessage = [text |-> <<"Loading map and case data...">>,
                        isError |-> FALSE]
    /\ startBtnDisabled = TRUE
    /\ downloadLinkHidden = TRUE
    /\ inputsDisabled = FALSE
    /\ countriesInputValue = << << >> >>
    /\ recorders = << >>
    /\ sequences = << >>
    /\ currentAnimationTimer = NoTimer

\* initialize(): both files have arrived
InitializeResolved ==
    /\ recLoad = "pending"
    /\ RecBecomes([setStatus(RecCur, <<"Ready to record.">>, FALSE)
                      EXCEPT !.recLoad = "loaded", !.startBtnDisabled = FALSE])

\* initialize(): catch
InitializeRejected ==
    /\ recLoad = "pending"
    /\ RecBecomes([setStatus(RecCur,
                       <<"Failed to load map/case data. Please refresh.">>, TRUE)
                      EXCEPT !.recLoad = "failed"])

\* the user edits the list of countries
EditCountriesInput ==
    /\ ~inputsDisabled
    /\ \E v \in InputValues \ {countriesInputValue} :
          RecBecomes([RecCur EXCEPT !.countriesInputValue = v])

ClickStart ==
    /\ ~startBtnDisabled
    /\ Len(sequences) < MaxClicks
    /\ RecBecomes(startBtnClick(RecCur))

\* a MediaRecorder delivers its next event
RecorderEvent ==
    \E m \in DOMAIN recorders :
        /\ recorders[m].events # << >>
        /\ LET r == [RecCur EXCEPT !.recorders[m].events = Tail(@)]
           IN  CASE Head(recorders[m].events) = "start" ->
                         RecBecomes(onstart(r))
                 [] Head(recorders[m].events) = "error" ->
                         RecBecomes(onerror(r, "encoder"))
                 [] OTHER -> RecBecomes(onstop(r))

\* a recording MediaRecorder fails: it becomes inactive and queues its error
\* event and, after it, its stop event
RecorderError ==
    \E m \in DOMAIN recorders :
        /\ recorders[m].state = "recording"
        /\ RecBecomes([RecCur EXCEPT
                          !.recorders[m].state = "inactive",
                          !.recorders[m].events = @ \o <<"error", "stop">>])

\* the d3.timer callback of flyTo / resetGlobe reaches t >= 1
AnimationFinished ==
    /\ currentAnimationTimer.running
    /\ LET q == currentAnimationTimer.owner
       IN  RecBecomes(resume([RecCur EXCEPT
                                 !.currentAnimationTimer.running = FALSE], q))

\* a setTimeout of runAnimationSequence fires
TimeoutFires ==
    \E q \in DOMAIN sequences :
        /\ sequences[q].pc \in {"wait1", "pause", "wait2"}
        /\ RecBecomes(resume(RecCur, q))

(***************************************************************************)
(* KNOWLEDGE GRAPH (knowledge-graph/src/main.js).  An element of the SVG   *)
(* is known by the key of the datum bound to it: a circle and a text by    *)
(* the node id, a line by the ids of its two end nodes.                    *)
(***************************************************************************)
NoYear == 0                       \* a topic node has no year

Topic(id) == [id |-> id, type |-> "topic", year |-> NoYear]
Case(id, year) == [id |-> id, type |-> "case", year |-> year]
Link(source, target) == [source |-> source, target |-> target]

\* Contents of graph_data.json the model is run on.  forceLink resolves the
\* ends of every link to nodes of the graph when the simulation is made.
GraphFiles ==
    { [nodes |-> {Topic("T1"), Topic("T2"), Case("A", 2018), Case("B", 2020),
                  Case("C", 2021)},
       links |-> {Link("A", "T1"), Link("B", "T1"), Link("B", "T2"),
                  Link("C", "T2"), Link("A", "C"), Link("T1", "T2")}],
      [nodes |-> {Topic("T1"), Case("A", 2019), Case("B", 2019),
                  Case("C", 2020)},
       links |-> {Link("A", "T1"), Link("B", "A"), Link("C", "B")}] }

Max(S) == CHOOSE x \in S : \A y \in S : y <= x
Min(S) == CHOOSE x \in S : \A y \in S : x <= y

ids(nodes) == {n.id : n \in nodes}

KgCur ==
    [kgLoad |-> kgLoad, allNodes |-> allNodes, allLinks |-> allLinks,
     kgYearSliderValue |-> kgYearSliderValue, circles |-> circles,
     labels |-> labels, lines |-> lines, fadedCircles |-> fadedCircles,
     fadedLines |-> fadedLines, hiddenLabels |-> hiddenLabels,
     labelToggleChecked |-> labelToggleChecked]

KgBecomes(k) ==
    /\ kgLoad' = k.kgLoad
    /\ allNodes' = k.allNodes
    /\ allLinks' = k.allLinks
    /\ kgYearSliderValue' = k.kgYearSliderValue
    /\ circles' = k.circles
    /\ labels' = k.labels
    /\ lines' = k.lines
    /\ fadedCircles' = k.fadedCircles
    /\ fadedLines' = k.fadedLines
    /\ hiddenLabels' = k.hiddenLabels
    /\ labelToggleChecked' = k.labelToggleChecked
    /\ UNCHANGED <<mapVars, chatVars, recVars, ftVars>>

\* A data join that appends the entering elements and leaves the exiting
\* ones in place.
joinKeepingExit(elements, data) == elements \cup data

\* selection.data(data, key), exit().remove(), enter().append().merge():
\* the elements after the join, by key
join(elements, data) ==
    LET update == elements \cap data
        exit == elements \ data
        enter == data \ elements
    IN  (elements \ exit) \cup update \cup enter

\* updateGraph(filteredNodes, filteredLinks)
updateGraph(k, filteredNodes, filteredLinks) ==
    LET circles1 == join(k.circles, ids(filteredNodes))
        labels1 == join(k.labels, ids(filteredNodes))
        lines1 == join(k.lines, filteredLinks)
    IN  [k EXCEPT !.circles = circles1, !.labels = labels1, !.lines = lines1,
                  \* an element that is removed takes its classes and styles
                  \* along; one that enters has none
                  !.fadedCircles = @ \cap k.circles \cap circles1,
                  !.fadedLines = @ \cap k.lines \cap lines1,
                  !.hiddenLabels = @ \cap k.labels \cap labels1]

\* yearSlider 'input'
kgYearSliderInput(k, selectedYear) ==
    LET topicNodes == {n \in k.allNodes : n.type = "topic"}
        caseNodes == {n \in k.allNodes :
                         n.type = "case" /\ n.year <= selectedYear}
        filteredNodes == topicNodes \cup caseNodes
        filteredNodeIds == ids(filteredNodes)
        filteredLinks == {l \in k.allLinks :
                             /\ l.source \in filteredNodeIds
                             /\ l.target \in filteredNodeIds}
    IN  updateGraph([k EXCEPT !.kgYearSliderValue = selectedYear],
                    filteredNodes, filteredLinks)

\* handleClick(event, d, node, link)
handleClick(k, d) ==
    LET connected ==
            {d} \cup {l.target : l \in {x \in k.allLinks : x.source = d}}
                \cup {l.source : l \in {x \in k.allLinks : x.target = d}}
    IN  [k EXCEPT !.fadedCircles = {n \in k.circles : n \notin connected},
                  !.fadedLines = {l \in k.lines :
                                     ~(l.source = d \/ l.target = d)}]

\* svg 'dblclick'
svgDblClick(k) == [k EXCEPT !.fadedCircles = {}, !.fadedLines = {}]

\* labelToggleCheckbox 'change'
labelToggle(k) ==
    LET isChecked == ~k.labelToggleChecked
        caseLabels == {n.id : n \in {x \in k.allNodes : x.type = "case"}}
                         \cap k.labels
    IN  [k EXCEPT !.labelToggleChecked = isChecked,
                  !.hiddenLabels = IF isChecked THEN @ \ caseLabels
                                   ELSE @ \cup caseLabels]

\* d3.json("/graph_data.json").then(...)
graphLoaded(k, graph) ==
    LET years == {n.year : n \in {x \in graph.nodes : x.type = "case"}}
        k1 == [k EXCEPT !.kgLoad = "loaded", !.allNodes = graph.nodes,
                        !.allLinks = graph.links,
                        !.kgYearSliderValue = Max(years)]
    IN  updateGraph(k1, k1.allNodes, k1.allLinks)

KgInit ==
    /\ kgLoad = "pending"
    /\ allNodes = {}
    /\ allLinks = {}
    /\ kgYearSliderValue = NoYear
    /\ circles = {}
    /\ labels = {}
    /\ lines = {}
    /\ fadedCircles = {}
    /\ fadedLines = {}
    /\ hiddenLabels = {}
    /\ labelToggleChecked = TRUE

GraphLoadResolved ==
    /\ kgLoad = "pending"
    /\ \E graph \in GraphFiles : KgBecomes(graphLoaded(KgCur, graph))

GraphLoadRejected ==
    /\ kgLoad = "pending"
    /\ KgBecomes([KgCur EXCEPT !.kgLoad = "failed"])

\* the user moves the year slider, between its min and its max
KgYearSliderInput ==
    /\ kgLoad = "loaded"
    /\ LET years == {n.year : n \in {x \in allNodes : x.type = "case"}}
       IN  \E selectedYear \in Min(years)..Max(years) :
              KgBecomes(kgYearSliderInput(KgCur, selectedYear))

NodeClick ==
    /\ kgLoad = "loaded"
    /\ \E d \in circles : KgBecomes(handleClick(KgCur, d))

SvgDblClick ==
    /\ kgLoad = "loaded"
    /\ KgBecomes(svgDblClick(KgCur))

LabelToggleChange ==
    /\ kgLoad = "loaded"
    /\ KgBecomes(labelToggle(KgCur))

(***************************************************************************)
(* FORENSIC DASHBOARD (forensic-tool/src/main.js).                         *)
(***************************************************************************)
NaN == -1                         \* parseInt of a field that holds no number

DigitChars == {"0", "1", "2", "3", "4", "5", "6", "7", "8", "9"}

DigitValue(c) ==
    CASE c = "0" -> 0 [] c = "1" -> 1 [] c = "2" -> 2 [] c = "3" -> 3
      [] c = "4" -> 4 [] c = "5" -> 5 [] c = "6" -> 6 [] c = "7" -> 7
      [] c = "8" -> 8 [] OTHER -> 9

RECURSIVE parseDigits(_, _)
parseDigits(str, acc) ==
    IF str = << >> \/ Head(str) \notin DigitChars THEN acc
    ELSE parseDigits(Tail(str), 10 * acc + DigitValue(Head(str)))

\* parseInt(str, 10): the leading digits of the trimmed string
parseInt(str) ==
    LET t == trimStart(str)
    IN  IF t = << >> \/ Head(t) \notin DigitChars THEN NaN
        ELSE parseDigits(t, 0)

\* isNaN(str) of a CSV field: digits with at most one point are a number, and
\* the empty string converts to 0
isNaNField(str) ==
    \/ \E i \in DOMAIN str : str[i] \notin DigitChars \cup {"."}
    \/ Cardinality({i \in DOMAIN str : str[i] = "."}) > 1
    \/ str = <<".">>

Y2018 == <<"2", "0", "1", "8">>
Y2019 == <<"2", "0", "1", "9">>
Y2020 == <<"2", "0", "2", "0">>
Y2021 == <<"2", "0", "2", "1">>

DisasterRow(country, year, type, latitude) ==
    [Country |-> country, StartYear |-> year, DisasterType |-> type,
     Latitude |-> latitude, Longitude |-> <<"1">>]

CaseRow(jurisdictions, year, name) ==
    [Jurisdictions |-> jurisdictions, FilingYear |-> year, CaseName |-> name]

\* Contents of the two CSV files the model is run on.  A country name and a
\* Jurisdictions field are sequences of words, so that includes() can find
\* the one within the other.
ForensicFiles ==
    { [disasters |->
          << DisasterRow(<<"Philippines">>, Y2019, "Flood", <<"1", "4">>),
             DisasterRow(<<"Philippines">>, Y2021, "Storm", <<"1", "4">>),
             DisasterRow(<<"Philippines">>, Y2020 \o <<".", "0">>, "Flood", << >>),
             DisasterRow(<<"Philippines">>, << >>, "Flood", <<"1", "4">>),
             DisasterRow(<<"Philippines">>, Y2020, "Storm", <<"n", "a">>),
             DisasterRow(<<"Kenya">>, Y2020, "Flood", <<"1">>),
             DisasterRow(<<"Kenya">>, <<" ">> \o Y2018, "Storm", <<"1", ".", "5">>),
             DisasterRow(<<"Philippines">>, Y2021, "Flood", <<"1", "4">>) >>,
       cases |->
          << CaseRow(<<"Philippines">>, Y2020, "c1"),
             CaseRow(<<"Kenya", ";", "Philippines">>, Y2021, "c2"),
             CaseRow(<<"Kenya">>, Y2019, "c3"),
             CaseRow(<< >>, Y2019, "c4"),
             CaseRow(<<"Philippines">>, <<"n", "d">>, "c5") >>],
      [disasters |-> << DisasterRow(<<"Kenya">>, Y2020, "Storm", <<"1">>) >>,
       cases |-> << CaseRow(<<"Kenya">>, Y2019, "c3"),
                    CaseRow(<<"Kenya">>, Y2021, "c6") >>],
      [disasters |-> << DisasterRow(<<"Kenya">>, << >>, "Storm", <<"1">>) >>,
       cases |-> << >>] }

DisasterTypeOptions == {"All Types", "Flood", "Storm"}
NoSlider == << >>                 \* dateSlider = null

RECURSIVE mapStartYear(_)
mapStartYear(rows) ==
    IF rows = << >> THEN << >>
    ELSE <<[Head(rows) EXCEPT !.StartYear = parseInt(@)]>>
            \o mapStartYear(Tail(rows))

RECURSIVE mapFilingYear(_)
mapFilingYear(rows) ==
    IF rows = << >> THEN << >>
    ELSE <<[Head(rows) EXCEPT !.FilingYear = parseInt(@)]>>
            \o mapFilingYear(Tail(rows))

validDisaster(d) ==
    d.StartYear # NaN /\ ~isNaNField(d.Latitude) /\ ~isNaNField(d.Longitude)

validCase(c) == c.FilingYear # NaN

RECURSIVE insertByYear(_, _)
\* the place of an event among events already in order: behind every event
\* that is not older
insertByYear(events, e) ==
    IF events = << >> THEN <<e>>
    ELSE IF Head(events).year >= e.year
         THEN <<Head(events)>> \o insertByYear(Tail(events), e)
         ELSE <<e>> \o events

RECURSIVE sortByYear(_)
\* events.sort((a, b) => b.year - a.year): a stable sort
sortByYear(events) ==
    IF events = << >> THEN << >>
    ELSE insertByYear(sortByYear(SubSeq(events, 1, Len(events) - 1)),
                      events[Len(events)])

RECURSIVE timelineItems(_)
timelineItems(events) ==
    IF events = << >> THEN << >>
    ELSE <<[className |-> "timeline-item", year |-> Head(events).year,
            title |-> Head(events).title]>> \o timelineItems(Tail(events))

\* renderTimeline(events, containerId): the children of the container
renderTimeline(events) ==
    IF Len(events) = 0
    THEN <<[className |-> "p", year |-> 0, title |-> "No events found."]>>
    ELSE timelineItems(events)

FtCur ==
    [ftLoad |-> ftLoad, disasterData |-> disasterData, caseData |-> caseData,
     allCountries |-> allCountries, selectedCountry |-> selectedCountry,
     disasterType |-> disasterType, dateSlider |-> dateSlider,
     sliderRange |-> sliderRange,
     disasterCountDisplay |-> disasterCountDisplay,
     casesCountDisplay |-> casesCountDisplay,
     disasterTimeline |-> disasterTimeline, casesTimeline |-> casesTimeline]

FtBecomes(f) ==
    /\ ftLoad' = f.ftLoad
    /\ disasterData' = f.disasterData
    /\ caseData' = f.caseData
    /\ allCountries' = f.allCountries
    /\ selectedCountry' = f.selectedCountry
    /\ disasterType' = f.disasterType
    /\ dateSlider' = f.dateSlider
    /\ sliderRange' = f.sliderRange
    /\ disasterCountDisplay' = f.disasterCountDisplay
    /\ casesCountDisplay' = f.casesCountDisplay
    /\ disasterTimeline' = f.disasterTimeline
    /\ casesTimeline' = f.casesTimeline
    /\ UNCHANGED <<mapVars, chatVars, recVars, kgVars>>

RECURSIVE disasterEventsOf(_)
disasterEventsOf(rows) ==
    IF rows = << >> THEN << >>
    ELSE <<[year |-> Head(rows).StartYear, title |-> Head(rows).DisasterType]>>
            \o disasterEventsOf(Tail(rows))

RECURSIVE caseEventsOf(_)
caseEventsOf(rows) ==
    IF rows = << >> THEN << >>
    ELSE <<[year |-> Head(rows).FilingYear, title |-> Head(rows).CaseName]>>
            \o caseEventsOf(Tail(rows))

\* A disaster filter that does not look at the selected type.
filterDisastersOfAnyType(f) ==
    LET inRange(d) == /\ d.Country = f.selectedCountry
                      /\ d.StartYear >= f.dateSlider[1]
                      /\ d.StartYear <= f.dateSlider[2]
    IN  SelectSeq(f.disasterData, inRange)

\* filteredDisasters of updateDashboard
filterDisasters(f) ==
    LET inRange(d) == /\ d.Country = f.selectedCountry
                      /\ d.StartYear >= f.dateSlider[1]
                      /\ d.StartYear <= f.dateSlider[2]
        ofType(d) == d.DisasterType = f.disasterType
        filteredDisasters == SelectSeq(f.disasterData, inRange)
    IN  IF f.disasterType # "All Types"
        THEN SelectSeq(filteredDisasters, ofType)
        ELSE filteredDisasters

\* filteredCases of updateDashboard
filterCases(f) ==
    LET inRange(c) == /\ c.Jurisdictions # << >>
                      /\ includes(c.Jurisdictions, f.selectedCountry)
                      /\ c.FilingYear >= f.dateSlider[1]
                      /\ c.FilingYear <= f.dateSlider[2]
    IN  SelectSeq(f.caseData, inRange)

updateDashboard(f) ==
    IF f.dateSlider = NoSlider THEN f
    ELSE LET disasters == filterDisasters(f)
             cases == filterCases(f)
             disasterEvents == sortByYear(disasterEventsOf(disasters))
             caseEvents == sortByYear(caseEventsOf(cases))
         IN  [f EXCEPT !.disasterCountDisplay = Len(disasters),
                       !.casesCountDisplay = Len(cases),
                       !.disasterTimeline = renderTimeline(disasterEvents),
                       !.casesTimeline = renderTimeline(caseEvents)]

Range(seq) == {seq[i] : i \in DOMAIN seq}

\* loadData().then(...)
dataLoaded(f, file) ==
    LET f1 == [f EXCEPT !.ftLoad = "loaded",
                        !.disasterData =
                            SelectSeq(mapStartYear(file.disasters),
                                      validDisaster),
                        !.caseData =
                            SelectSeq(mapFilingYear(file.cases), validCase)]
        disasterCountries == {d.Country : d \in Range(f1.disasterData)}
        caseCountries == {c.Jurisdictions : c \in Range(f1.caseData)} \ {<< >>}
        allYears == ({d.StartYear : d \in Range(f1.disasterData)}
                        \cup {c.FilingYear : c \in Range(f1.caseData)}) \ {0}
        f2 == [f1 EXCEPT !.allCountries = disasterCountries \cup caseCountries]
    IN  IF allYears = {} THEN f2
        ELSE updateDashboard(
                 [f2 EXCEPT !.dateSlider = <<Min(allYears), Max(allYears)>>,
                            !.sliderRange = <<Min(allYears), Max(allYears)>>])

FtInit ==
    /\ ftLoad = "pending"
    /\ disasterData = << >>
    /\ caseData = << >>
    /\ allCountries = {}
    /\ selectedCountry = <<"Philippines">>
    /\ disasterType = "All Types"
    /\ dateSlider = NoSlider
    /\ sliderRange = NoSlider
    /\ disasterCountDisplay = 0
    /\ casesCountDisplay = 0
    /\ disasterTimeline = << >>
    /\ casesTimeline = << >>

ForensicLoadResolved ==
    /\ ftLoad = "pending"
    /\ \E file \in ForensicFiles : FtBecomes(dataLoaded(FtCur, file))

ForensicLoadRejected ==
    /\ ftLoad = "pending"
    /\ FtBecomes([FtCur EXCEPT !.ftLoad = "failed"])

\* noUiSlider 'set': the user has moved a handle of the date slider
DateSliderSet ==
    /\ dateSlider # NoSlider
    /\ \E startYear \in sliderRange[1]..sliderRange[2] :
          \E endYear \in startYear..sliderRange[2] :
              FtBecomes(updateDashboard(
                  [FtCur EXCEPT !.dateSlider = <<startYear, endYear>>]))

\* #disaster-type 'change'
DisasterTypeChange ==
    /\ dateSlider # NoSlider
    /\ \E type \in DisasterTypeOptions \ {disasterType} :
          FtBecomes(updateDashboard([FtCur EXCEPT !.disasterType = type]))

\* click on an item of the autocomplete list
AutocompleteClick ==
    /\ dateSlider # NoSlider
    /\ \E country \in allCountries :
          FtBecomes(updateDashboard(
              [FtCur EXCEPT !.selectedCountry = country]))

Init ==
    /\ MapInit
    /\ ChatInit
    /\ RecInit
    /\ KgInit
    /\ FtInit

\* The recorder, the knowledge graph and the forensic dashboard are pages of
\* their own: the projection map is not part of them, and its state is held
\* at one initial value.
OtherPageInit ==
    /\ Init
    /\ yearSliderValue = 2025

toggleOf(s, l) ==
    CASE l = "emission" -> toggleEmissionLayer(s)
      [] l = "temperature" -> toggleTempLayer(s)
      [] l = "burn" -> toggleBurnLayer(s)
      [] OTHER -> toggleSeaLevelLayer(s)

\* click on one of the four raster toggle buttons
ClickRasterToggle ==
    \E l \in Layers :
        LET s == toggleOf(Cur, l)
        IN  /\ InFlight(s.textFetches) + Cached(s.dataCache) <= MaxLoaded
            /\ Becomes(s, "toggle")

\* the user moves the year slider
YearSliderInput ==
    \E year \in Years :
        LET s == yearSliderInput(Cur, year)
        IN  /\ InFlight(s.textFetches) + Cached(s.dataCache) <= MaxLoaded
            /\ Becomes(s, "slider")

RasterLoadResolved ==
    \E l \in Layers, year \in Years :
        /\ textFetches[<<l, year>>] > 0
        /\ Becomes(loadResolved(Cur, l, year), "loadResolved")

RasterLoadRejected ==
    \E l \in Layers, year \in Years :
        /\ textFetches[<<l, year>>] > 0
        /\ Becomes(loadRejected(Cur, l, year), "loadRejected")

ClickCasesToggle ==
    LET s == toggleCasesLayer(Cur)
    IN  /\ s.csvFetches <= MaxCsvFetches
        /\ Becomes(s, "toggleCases")

CasesLoadResolved ==
    /\ csvFetches > 0
    /\ \E data \in CaseFiles :
           Becomes(casesResolved(Cur, data), "casesResolved")

CasesLoadRejected ==
    /\ csvFetches > 0
    /\ Becomes(casesRejected(Cur), "casesRejected")

StatusChange ==
    \E status \in Statuses :
        Becomes(statusChange(Cur, status), "status")

CategoryChange ==
    \E cb \in Checkboxes :
        Becomes(categoryChange(Cur, cb), "category")

ClickDisasterToggle ==
    LET s == toggleDisasterLayer(Cur)
    IN  /\ s.disasterFetches <= MaxDisasterFetches
        /\ Becomes(s, "toggleDisasters")

DisasterLoadResolved ==
    /\ disasterFetches > 0
    /\ Becomes(disastersResolved(Cur), "disastersResolved")

DisasterLoadRejected ==
    /\ disasterFetches > 0
    /\ Becomes(disastersRejected(Cur), "disastersRejected")

\* d3.json(worldJsonUrl).then(...): countries are set, the attractor starts
WorldLoadResolved ==
    /\ worldLoad = "pending"
    /\ Becomes(startAttractorLoop([Cur EXCEPT !.worldLoad = "loaded"]),
               "worldResolved")

WorldLoadRejected ==
    /\ worldLoad = "pending"
    /\ Becomes([Cur EXCEPT !.worldLoad = "failed"], "worldRejected")

\* the d3.timer callback of the attractor loop: one step of rotation
RotationTick ==
    /\ rotationTimer = "running"
    /\ Becomes([Cur EXCEPT !.rotation = (@ + 1) % RotationSteps],
               "tick")

\* drag 'start' and zoom 'start'
DragOrZoomStart ==
    Becomes(gestureStart(Cur), "dragStart")

\* drag 'end' and zoom 'end'; the gesture's start has run stopAttractorLoop.
\* updateProjection draws random numbers only when it makes particles.
DragOrZoomEnd ==
    /\ userHasInteracted
    /\ \E rnd2 \in CreationDraws :
         \E rnd1 \in IF /\ windAnimator.isVisible
                         /\ windAnimator.field # NullField
                         /\ isWindLayerVisible
                         /\ windDataCache # NoWind
                      THEN CreationDraws ELSE {rnd2} :
            Becomes(gestureEnd(Cur, rnd1, rnd2), "dragEnd")

\* click on #toggle-wind-btn
ClickWindToggle ==
    \E rnd \in CreationDraws :
        LET s == toggleWindLayer(Cur, rnd)
        IN  /\ s.windFetches <= MaxWindFetches
            /\ Becomes(s, "toggleWind")

WindLoadResolved ==
    /\ windFetches > 0
    /\ \E data \in WindFiles, rnd \in CreationDraws :
          Becomes(windLoadResolved(Cur, data, rnd), "windResolved")

WindLoadRejected ==
    /\ windFetches > 0
    /\ Becomes(windLoadRejected(Cur), "windRejected")

\* the browser runs a pending requestAnimationFrame callback
AnimationFrame ==
    \E id \in rafPending, rnd \in EvolveDraws :
        Becomes(frame([Cur EXCEPT !.rafPending = @ \ {id}], rnd), "frame")

RasterNext ==
    \/ ClickRasterToggle
    \/ YearSliderInput
    \/ RasterLoadResolved
    \/ RasterLoadRejected

SpecRaster == Init /\ [][RasterNext]_vars

(***************************************************************************)
(* C1.  At most one raster layer is visible, and activeRasterLayerId is    *)
(* the id of the visible layer, or null when no layer is visible.          *)
(***************************************************************************)
C1_OneRasterLayer ==
    /\ Cardinality({l \in Layers : isVisible[l]}) <= 1
    /\ (activeRasterLayerId = NullId) <=> (\A l \in Layers : ~isVisible[l])
    /\ activeRasterLayerId # NullId =>
          /\ activeRasterLayerId \in Layers
          /\ isVisible[activeRasterLayerId]

\* The sea-level toggle was clicked after the emission layer had been shown and
\* loaded; the emission layer is hidden again.
C1_Witness ==
    /\ lastEvent.op = "toggle"
    /\ activeRasterLayerId = "seaLevel"
    /\ layerData["emission"] # NoData
    /\ ~isVisible["emission"]

(***************************************************************************)
(* C2.  A cache entry, once stored, is never removed or changed; a load    *)
(* that succeeds stores the parsed data under its layer and year; a load   *)
(* that fails leaves the cache as it is; and a request for a cached layer  *)
(* and year sets layer.data from the cache and issues no fetch.            *)
(***************************************************************************)
C2_CacheContract ==
    [][ /\ \A l \in Layers, y \in Years :
             Truthy(dataCache[l][y]) => dataCache'[l][y] = dataCache[l][y]
        /\ \A l \in Layers, y \in Years :
             (/\ lastEvent'.op \in {"slider", "toggle"}
              /\ lastEvent'.req = <<l, y>>
              /\ Truthy(dataCache[l][y]))
             => /\ textFetches' = textFetches
                /\ layerData'[l] = dataCache[l][y]
        /\ \A l \in Layers, y \in Years :
             (lastEvent'.op = "loadResolved" /\ lastEvent'.req = <<l, y>>)
             => dataCache'[l][y] = DataOf(l, y)
        /\ lastEvent'.op = "loadRejected" => dataCache' = dataCache
      ]_vars

\* The emission data of 2019 was fetched once and cached, and the last event
\* asked for it again: no second request was made.
C2_Witness ==
    /\ lastEvent.op \in {"slider", "toggle"}
    /\ lastEvent.req = <<"emission", 2019>>
    /\ Truthy(dataCache["emission"][2019])
    /\ layerData["emission"] = DataOf("emission", 2019)
    /\ InFlight(textFetches) = 0

(***************************************************************************)
(* C11.  When the slider was moved while a raster layer is active, and no  *)
(* load is pending any more, and the load of the year the slider selects   *)
(* has succeeded, the data of the active layer is the dataset of that      *)
(* year, in whatever order the loads were settled.                         *)
(***************************************************************************)
C11_SliderRace ==
    (/\ activeRasterLayerId # NullId
     /\ lastEvent.moved
     /\ InFlight(textFetches) = 0
     /\ Truthy(dataCache[activeRasterLayerId][yearSliderValue]))
    => layerData[activeRasterLayerId] =
          DataOf(activeRasterLayerId, yearSliderValue)

CasesNext ==
    \/ ClickCasesToggle
    \/ CasesLoadResolved
    \/ CasesLoadRejected
    \/ StatusChange
    \/ CategoryChange
    \/ YearSliderInput
    \/ WorldLoadResolved

SpecCases == Init /\ [][CasesNext]_vars

(***************************************************************************)
(* C3.  After updateMap has run with the case data loaded, every country's *)
(* caseCount is the number of loaded cases of that jurisdiction filed in or *)
(* before the slider year, with a status in activeStatusFilters unless that *)
(* set is empty, and with a non-empty issue text containing, whatever the   *)
(* letter case, a keyword of activeCategoryFilters unless that set is empty.*)
(***************************************************************************)
ContainsIgnoringCase(text, keyword) ==
    \E i \in 0..(Len(text) - Len(keyword)) :
        \A j \in 1..Len(keyword) :
            LowerChar(text[i + j]) = LowerChar(keyword[j])

Counted(d, c, year) ==
    /\ d.Jurisdictions = c
    /\ d.FilingYear <= year
    /\ activeStatusFilters # {} => d.Status \in activeStatusFilters
    /\ activeCategoryFilters # {} =>
          /\ d.Issue # << >>
          /\ \E k \in activeCategoryFilters : ContainsIgnoringCase(d.Issue, k)

C3_CaseCount ==
    (lastEvent.um # 0 /\ worldLoad = "loaded") =>
        \A c \in Countries :
            caseCount[c] =
                Cardinality({i \in DOMAIN allCasesData :
                                Counted(allCasesData[i], c, lastEvent.um)})

\* updateMap ran with both kinds of filter set; it counted one of two loaded
\* cases and left the other out.
C3_Witness ==
    /\ lastEvent.um # 0
    /\ worldLoad = "loaded"
    /\ activeStatusFilters # {}
    /\ activeCategoryFilters # {}
    /\ allCasesData = <<KenyaFire, KenyaEmission>>
    /\ caseCount["Kenya"] = 1

InteractionNext ==
    \/ WorldLoadResolved
    \/ WorldLoadRejected
    \/ RotationTick
    \/ DragOrZoomStart
    \/ ClickDisasterToggle
    \/ DisasterLoadResolved
    \/ DisasterLoadRejected
    \/ ClickRasterToggle
    \/ ClickCasesToggle
    \/ CasesLoadRejected

SpecInteraction == Init /\ [][InteractionNext]_vars

(***************************************************************************)
(* C7.  Once stopAttractorLoop has run (userHasInteracted is true), it      *)
(* stays so and the rotation timer is not active in that state or in any    *)
(* later one, also when the world geography loads, and startAttractorLoop   *)
(* is called, only after the interaction.                                   *)
(***************************************************************************)
C7_AttractorStopsForGood ==
    [][ /\ userHasInteracted => userHasInteracted'
        /\ userHasInteracted' => rotationTimer' # "running"
      ]_vars

\* The user interacted while the world geography was still loading; the
\* geography then arrived and startAttractorLoop was called.
C7_Witness ==
    /\ lastEvent.op = "worldResolved"
    /\ userHasInteracted
    /\ worldLoad = "loaded"
    /\ rotationTimer = "null"

(***************************************************************************)
(* C8.  When a load of the disaster CSV fails, isDisasterLayerVisible is    *)
(* false, the disaster layer is hidden, the toggle button is not active,    *)
(* and areDisastersLoaded is false, so that the next toggle issues a new    *)
(* load.                                                                    *)
(***************************************************************************)
C8_DisasterLoadFailure ==
    [][ lastEvent'.op = "disastersRejected" =>
          /\ ~isDisasterLayerVisible'
          /\ ~disasterLayerShown'
          /\ ~disasterBtnActive'
          /\ ~areDisastersLoaded'
          /\ (toggleDisasterLayer(Cur).disasterFetches)' = disasterFetches' + 1
      ]_vars

ChatNext ==
    \/ ChatSubmit
    \/ ChatSettle

\* A request that is in flight is settled in the end: the webhook answers or
\* the browser gives the request up.
SpecChat == Init /\ [][ChatNext]_vars /\ WF_vars(ChatSettle)

(***************************************************************************)
(* C4.  Every submitted prompt that is not empty after trimming appends     *)
(* exactly one user-message, with the trimmed text, and sends one request;  *)
(* the request is followed, in the end, by exactly one ai-message, after    *)
(* the user-message, whatever the outcome; a prompt that is empty after     *)
(* trimming appends no message and sends no request.                        *)
(***************************************************************************)
MessagesOf(k, className) ==
    {i \in DOMAIN chatMessages :
        chatMessages[i].request = k /\ chatMessages[i].className = className}

C4_Messages ==
    /\ \A i \in DOMAIN chatMessages :
          chatMessages[i].request \in DOMAIN chatRequests
    /\ \A k \in DOMAIN chatRequests :
          /\ Cardinality(MessagesOf(k, "user-message")) = 1
          /\ Cardinality(MessagesOf(k, "ai-message")) =
                IF chatRequests[k].state = "settled" THEN 1 ELSE 0
          /\ \A i \in MessagesOf(k, "user-message"),
                j \in MessagesOf(k, "ai-message") : i < j

C4_Submit ==
    (chatEvent' # chatEvent /\ chatEvent'.op = "submit") =>
        IF trim(chatEvent'.text) = << >>
        THEN chatMessages' = chatMessages /\ chatRequests' = chatRequests
        ELSE /\ Len(chatRequests') = Len(chatRequests) + 1
             /\ chatRequests'[Len(chatRequests')].state = "pending"
             /\ chatMessages' =
                   Append(chatMessages,
                          [className |-> "user-message",
                           content |-> trim(chatEvent'.text),
                           request |-> Len(chatRequests')])

C4_ChatContract ==
    /\ []C4_Messages
    /\ [][C4_Submit]_vars
    /\ \A k \in 1..MaxPrompts :
          (Len(chatRequests) >= k) ~>
              (Cardinality(MessagesOf(k, "ai-message")) = 1)

\* Two prompts were sent; the second was answered first, with an error, and
\* the first then got a reply; a prompt of blanks was submitted last.
C4_Witness ==
    /\ Len(chatMessages) = 4
    /\ chatMessages[3].className = "ai-message"
    /\ chatMessages[3].request = 2
    /\ chatMessages[3].content = aiContent("status")
    /\ chatMessages[4].request = 1
    /\ chatMessages[4].content = aiContent("reply")
    /\ chatEvent.op = "submit"
    /\ chatEvent.text = <<" ">>
    /\ chatRequests[1].country = NullId
    /\ chatRequests[2].country = "United States of America"

RecorderNext ==
    \/ InitializeResolved
    \/ InitializeRejected
    \/ EditCountriesInput
    \/ ClickStart
    \/ RecorderEvent
    \/ AnimationFinished
    \/ TimeoutFires

SpecRecorder == OtherPageInit /\ [][RecorderNext]_vars

(***************************************************************************)
(* C5.  A run of the animation sequence with at least one country performs  *)
(* its steps in this order: resetGlobe, then for each entered country, in   *)
(* input order, flyTo and a pause (also for a name that matches no          *)
(* country), then resetGlobe again, and then, last, the stop of the media   *)
(* recorder; a run that has ended has performed all of them.                *)
(***************************************************************************)
RECURSIVE CountrySteps(_)
CountrySteps(names) ==
    IF names = << >> THEN << >>
    ELSE << <<"flyTo">> \o Head(names), <<"pause">> \o Head(names) >>
            \o CountrySteps(Tail(names))

StepsBeforeStop(names) ==
    << <<"resetGlobe">> >> \o CountrySteps(names) \o << <<"resetGlobe">> >>

IsPrefix(a, b) == Len(a) <= Len(b) /\ a = SubSeq(b, 1, Len(a))

C5_SequenceOrder ==
    \A q \in DOMAIN sequences :
        LET names == sequences[q].countryNames
            steps == StepsBeforeStop(names) \o << <<"stop">> >>
            log == sequences[q].log
        IN  names # << >> =>
              /\ IsPrefix(log, steps)
              /\ sequences[q].pc = "done" =>
                    \/ log = steps
                    \/ log = StepsBeforeStop(names)
              /\ (Len(sequences) = 1 /\ recorders[q].state = "inactive") =>
                    log = steps

\* A run over "Atlantis", which is no country of the map, and "Peru" has
\* ended and has stopped the recorder.
C5_Witness ==
    /\ Len(sequences) = 1
    /\ sequences[1].countryNames = << <<"Atlantis">>, <<"Peru">> >>
    /\ sequences[1].pc = "done"
    /\ sequences[1].log =
          << <<"resetGlobe">>, <<"flyTo", "Atlantis">>, <<"pause", "Atlantis">>,
             <<"flyTo", "Peru">>, <<"pause", "Peru">>, <<"resetGlobe">>,
             <<"stop">> >>
    /\ recorders[1].state = "inactive"

(***************************************************************************)
(* C6.  After a recording was started with an empty country list and the    *)
(* recorder has delivered its events, the recorder is stopped, the status   *)
(* shown is the error 'Please enter at least one country.', and the         *)
(* download link is hidden.                                                 *)
(***************************************************************************)
C6_EmptyListError ==
    \A q \in DOMAIN sequences :
        (/\ q = Len(sequences)
         /\ sequences[q].countryNames = << >>
         /\ recorders[q].events = << >>)
        => /\ recorders[q].state = "inactive"
           /\ statusMessage = [text |-> <<"Please enter at least one country.">>,
                               isError |-> TRUE]
           /\ downloadLinkHidden

GraphNext ==
    \/ GraphLoadResolved
    \/ GraphLoadRejected
    \/ KgYearSliderInput
    \/ NodeClick
    \/ SvgDblClick
    \/ LabelToggleChange

SpecGraph == OtherPageInit /\ [][GraphNext]_vars

(***************************************************************************)
(* C9.  Once the graph is loaded, whatever slider moves were made, the      *)
(* displayed nodes (circles and labels) are exactly all topic nodes and the *)
(* case nodes with year at most the slider's year, and the displayed links  *)
(* are exactly the links of the graph whose two end nodes are both          *)
(* displayed: the display is a function of the slider value alone, and no   *)
(* displayed link lacks an end node.                                        *)
(***************************************************************************)
ShownAt(year) ==
    {n.id : n \in {x \in allNodes :
                      \/ x.type = "topic"
                      \/ x.type = "case" /\ x.year <= year}}

C9_GraphFilter ==
    kgLoad = "loaded" =>
        /\ circles = ShownAt(kgYearSliderValue)
        /\ labels = ShownAt(kgYearSliderValue)
        /\ lines = {l \in allLinks : l.source \in circles /\ l.target \in circles}
        /\ \A l \in lines : l.source \in circles /\ l.target \in circles

\* The slider was moved down to 2018, A was clicked, and the slider was moved
\* up to 2020: A and B are shown, C is not, and of the links of C none is.
C9_Witness ==
    /\ kgLoad = "loaded"
    /\ kgYearSliderValue = 2020
    /\ circles = {"T1", "T2", "A", "B"}
    /\ fadedCircles = {"T2"}
    /\ Link("A", "C") \in allLinks
    /\ Link("A", "C") \notin lines

ForensicNext ==
    \/ ForensicLoadResolved
    \/ ForensicLoadRejected
    \/ DateSliderSet
    \/ DisasterTypeChange
    \/ AutocompleteClick

SpecForensic == OtherPageInit /\ [][ForensicNext]_vars

(***************************************************************************)
(* C10.  After every updateDashboard the displayed disaster count is the    *)
(* number of entries of the disaster timeline, and it is the number of      *)
(* loaded disasters of the selected country whose Start Year lies in the    *)
(* slider's range, both ends included, and whose type is the selected one   *)
(* unless 'All Types' is selected; both timelines are in non-increasing     *)
(* order of year.                                                           *)
(***************************************************************************)
Entries(timeline) ==
    {i \in DOMAIN timeline : timeline[i].className = "timeline-item"}

NonIncreasing(timeline) ==
    \A i, j \in Entries(timeline) : i < j => timeline[i].year >= timeline[j].year

Selected(d) ==
    /\ d.Country = selectedCountry
    /\ dateSlider[1] <= d.StartYear
    /\ d.StartYear <= dateSlider[2]
    /\ disasterType # "All Types" => d.DisasterType = disasterType

C10_DashboardCounts ==
    dateSlider # NoSlider =>
        /\ disasterCountDisplay = Cardinality(Entries(disasterTimeline))
        /\ disasterCountDisplay =
              Cardinality({i \in DOMAIN disasterData : Selected(disasterData[i])})
        /\ NonIncreasing(disasterTimeline)
        /\ NonIncreasing(casesTimeline)

\* Floods of the Philippines from 2019 to 2021: three of the loaded rows,
\* listed with the later year first; two cases, the later first.
C10_Witness ==
    /\ selectedCountry = <<"Philippines">>
    /\ disasterType = "Flood"
    /\ dateSlider = <<2019, 2021>>
    /\ disasterCountDisplay = 3
    /\ Len(disasterTimeline) = 3
    /\ disasterTimeline[1].year = 2021
    /\ disasterTimeline[2].year = 2020
    /\ disasterTimeline[3].year = 2019
    /\ Len(casesTimeline) = 2
    /\ casesTimeline[1].year = 2021

WindNext ==
    \/ ClickWindToggle
    \/ WindLoadResolved
    \/ WindLoadRejected
    \/ DragOrZoomStart
    \/ DragOrZoomEnd
    \/ AnimationFrame

SpecWind == OtherPageInit /\ [][WindNext]_vars

(***************************************************************************)
(* C12.  The wind animation runs only while the wind layer is switched on:  *)
(* in every state, windAnimator.isVisible implies isWindLayerVisible, also  *)
(* when the wind data arrives after the layer was switched off again.       *)
(***************************************************************************)
C12_WindOnlyWhileOn ==
    windAnimator.isVisible => isWindLayerVisible

(***************************************************************************)
(* C13.  The WindAnimator has at most one animation-frame loop: whatever   *)
(* start, stop and updateProjection calls were made, at most one           *)
(* requestAnimationFrame callback is pending, and it is the one whose id   *)
(* is in animationId; while the animator is stopped none is pending, and   *)
(* no step evolves or draws the particles of a stopped animator unless it  *)
(* starts it.                                                              *)
(***************************************************************************)
C13_OnePending ==
    /\ Cardinality(rafPending) <= 1
    /\ rafPending \subseteq {windAnimator.animationId}
    /\ ~windAnimator.isVisible => rafPending = {}

C13_NoFrameWhileStopped ==
    (~windAnimator.isVisible /\ ~windAnimator'.isVisible) =>
        windAnimator'.particles = windAnimator.particles

C13_SingleFrameLoop ==
    []C13_OnePending /\ [][C13_NoFrameWhileStopped]_vars

\* A gesture has ended while the animation was running: updateProjection and
\* start have run, and one frame is pending.
C13_Witness ==
    /\ lastEvent.op = "dragEnd"
    /\ windAnimator.isVisible
    /\ windAnimator.animationId # NoId
    /\ rafPending = {windAnimator.animationId}

(***************************************************************************)
(* C16.  At every frame boundary the age of every particle is within       *)
(* 0..MAX_PARTICLE_AGE + 1, and a particle that the frame left without a   *)
(* path, because it was killed, was not drawn.  In a frame, a particle     *)
(* whose age exceeds MAX_PARTICLE_AGE is placed anew with its age reset:   *)
(* its age is 1 after the frame, unless the frame killed it again; and a   *)
(* particle the frame has killed has the age MAX_PARTICLE_AGE + 1, and,    *)
(* unless it was placed anew, is in the cell it was in.                    *)
(***************************************************************************)
C16_Ages ==
    \A i \in DOMAIN windAnimator.particles :
        LET p == windAnimator.particles[i]
        IN  /\ p.age \in 0..(MAX_PARTICLE_AGE + 1)
            /\ p.xt = NoPath => ~p.drawn

C16_Frame ==
    lastEvent'.op = "frame" =>
        \A i \in DOMAIN windAnimator.particles :
            LET p == windAnimator.particles[i]
                q == windAnimator'.particles[i]
            IN  /\ p.age > MAX_PARTICLE_AGE =>
                      /\ q.fresh
                      /\ q.age = 1 \/ (q.age = MAX_PARTICLE_AGE + 1 /\ q.xt = NoPath)
                /\ p.age <= MAX_PARTICLE_AGE =>
                      /\ ~q.fresh
                      /\ q.age = p.age + 1 \/ q.xt = NoPath
                /\ q.xt = NoPath =>
                      /\ q.age = MAX_PARTICLE_AGE + 1
                      /\ ~q.drawn
                      /\ ~q.fresh => q.x = p.x

C16_ParticleAge ==
    []C16_Ages /\ [][C16_Frame]_vars

\* A particle aged MAX_PARTICLE_AGE + 1 was placed anew by the last frame, in
\* the cell from which the wind leads off the globe, and the frame killed it
\* again.
C16_Witness ==
    /\ lastEvent.op = "frame"
    /\ windAnimator.particles[1].fresh
    /\ windAnimator.particles[1].x = 4
    /\ windAnimator.particles[1].age = MAX_PARTICLE_AGE + 1
    /\ windAnimator.particles[1].xt = NoPath
    /\ ~windAnimator.particles[1].drawn

RecorderErrorsNext ==
    \/ RecorderNext
    \/ RecorderError

SpecRecorderErrors == OtherPageInit /\ [][RecorderErrorsNext]_vars

(***************************************************************************)
(* C14.  At most one run of runAnimationSequence is in progress at any     *)
(* time, and in every state where a run is in progress the start button is *)
(* disabled, also after an error of the media recorder.                    *)
(***************************************************************************)
C14_OneSequence ==
    LET running == {q \in DOMAIN sequences : sequences[q].pc # "done"}
    IN  /\ Cardinality(running) <= 1
        /\ running # {} => startBtnDisabled

\* Timers, animation frames and the events of the recorders keep firing.
SpecRecorderFair ==
    /\ OtherPageInit
    /\ [][RecorderNext]_vars
    /\ WF_vars(AnimationFinished)
    /\ WF_vars(TimeoutFires)
    /\ WF_vars(RecorderEvent)

(***************************************************************************)
(* C15.  Every recording started with at least one country ends in the     *)
(* end, when timers and animation frames keep firing and no recorder       *)
(* raises an error: its recorder is stopped, the download link is shown,   *)
(* and the start button and the inputs are enabled.                        *)
(***************************************************************************)
C15_RecordingEnds ==
    \A q \in 1..MaxClicks :
        (q \in DOMAIN sequences /\ sequences[q].countryNames # << >>)
        ~> (/\ q \in DOMAIN recorders
            /\ recorders[q].state = "inactive"
            /\ ~downloadLinkHidden
            /\ ~startBtnDisabled
            /\ ~inputsDisabled)

====
